---- MODULE Spec2Model ----
(***************************************************************************)
(* Snowman: a terminal word-guessing game (src/rust-snowman-main/src/      *)
(* main.rs).  A string is a sequence of characters; a character is a       *)
(* one-letter TLA+ string.  The word list file is its raw character        *)
(* content, newlines included.                                             *)
(***************************************************************************)
EXTENDS Integers, Sequences, FiniteSets, TLC

\* ---------------------------------------------------------------- characters
NL == "\n"
SP == " "
Lower == {"a", "b", "c", "d", "e", "f"}
Upper == {"A"}
Chars == Lower \cup Upper \cup {"-", "'", "1", SP}

\* char::is_alphabetic
is_alphabetic(c) == c \in Lower \cup Upper

\* char::is_whitespace
is_whitespace(c) == c \in {SP, NL}

\* char lower-casing, as applied by str::to_lowercase
char_to_lowercase(c) == IF c = "A" THEN "a" ELSE c

\* byte value of a character (the order Vec<String>::sort compares by)
Code(c) ==
  CASE c = NL -> 10 [] c = SP -> 32 [] c = "'" -> 39 [] c = "-" -> 45
    [] c = "1" -> 49 [] c = "A" -> 65 [] c = "_" -> 95
    [] c = "a" -> 97 [] c = "b" -> 98 [] c = "c" -> 99
    [] c = "d" -> 100 [] c = "e" -> 101 [] c = "f" -> 102

\* ------------------------------------------------------------------- strings
to_lowercase(s) == [i \in 1..Len(s) |-> char_to_lowercase(s[i])]

RECURSIVE trim_start(_)
trim_start(s) ==
  IF s # <<>> /\ is_whitespace(Head(s)) THEN trim_start(Tail(s)) ELSE s

RECURSIVE trim_end(_)
trim_end(s) ==
  IF s # <<>> /\ is_whitespace(s[Len(s)])
    THEN trim_end(SubSeq(s, 1, Len(s) - 1)) ELSE s

trim(s) == trim_end(trim_start(s))

\* index of the first occurrence of character c in s, 0 if none
FirstIndex(s, c) ==
  IF \E i \in 1..Len(s) : s[i] = c
    THEN CHOOSE i \in 1..Len(s) : s[i] = c /\ \A j \in 1..(i - 1) : s[j] # c
    ELSE 0

\* str::lines: split at newlines, a final empty piece is not a line
RECURSIVE lines(_)
lines(s) ==
  IF s = <<>> THEN <<>>
  ELSE LET k == FirstIndex(s, NL)
       IN IF k = 0 THEN <<s>>
          ELSE <<SubSeq(s, 1, k - 1)>> \o lines(SubSeq(s, k + 1, Len(s)))

\* str::split(" "): every piece between separators, empty pieces included
RECURSIVE split(_)
split(s) ==
  LET k == FirstIndex(s, SP)
  IN IF k = 0 THEN <<s>>
     ELSE <<SubSeq(s, 1, k - 1)>> \o split(SubSeq(s, k + 1, Len(s)))

\* str::contains(&str): substring search
str_contains(s, sub) ==
  \E i \in 0..(Len(s) - Len(sub)) : SubSeq(s, i + 1, i + Len(sub)) = sub

\* Vec<String>::contains
vec_contains(v, x) == \E i \in 1..Len(v) : v[i] = x

\* String ordering: lexicographic by byte
StrLess(x, y) ==
  \E k \in 1..(Len(y)) :
     /\ \A j \in 1..(k - 1) : j <= Len(x) /\ x[j] = y[j]
     /\ \/ k = Len(x) + 1
        \/ k <= Len(x) /\ Code(x[k]) < Code(y[k])

\* position of v[j] in the sorted vector; equal elements keep their order
Rank(v, j) ==
  Cardinality({k \in 1..Len(v) :
                  StrLess(v[k], v[j]) \/ (v[k] = v[j] /\ k <= j)})

\* Vec<String>::sort: a stable sort by the String ordering
sort(v) ==
  [i \in 1..Len(v) |-> v[CHOOSE j \in 1..Len(v) : Rank(v, j) = i]]

\* -------------------------------------------------------------------- bounds
\* lines in the word list file when the program starts
MaxFileLines == 1
\* write_dictionary calls after which no further input line of words is read
MaxAppends == 2

\* ---------------------------------------------------------------- word store
\* read_dictionary: every line of the file, in file order
read_dictionary(contents) == lines(contents)

\* write_dictionary once the file is open: writeln!(file, "{}", word)
write_dictionary(contents, word, io) ==
  IF io = "ok" THEN contents \o word \o <<NL>> ELSE contents

\* get_user_input: read_line (keeps the newline), trim, to_lowercase
get_user_input(raw) == to_lowercase(trim(raw \o <<NL>>))

\* ---------------------------------------------------------------- validators
Ok == "Ok"
ErrSingle == "Please enter a single letter!"
ErrLetter == "Please enter a valid letter!"
ErrGuessed == "You already guessed that letter!"
ErrShort == "Please enter a word with at least 2 characters!"
ErrWord == "Please enter a valid word!"
ErrPresent == "The word is already in the dictionary!"

is_word_char(c) == is_alphabetic(c) \/ c = "-" \/ c = "'"

\* validate_guess without the already-guessed rule
validate_guess_no_memory(g, letters) ==
  IF Len(g) # 1 THEN ErrSingle
  ELSE IF ~(\A i \in 1..Len(g) : is_word_char(g[i])) THEN ErrLetter
  ELSE Ok

\* validate_guess without the character-class rule
validate_guess_any_char(g, letters) ==
  IF Len(g) # 1 THEN ErrSingle
  ELSE IF vec_contains(letters, g) THEN ErrGuessed
  ELSE Ok

\* validate_guess with the first two rules in the other order
validate_guess_swapped(g, letters) ==
  IF ~(\A i \in 1..Len(g) : is_word_char(g[i])) THEN ErrLetter
  ELSE IF Len(g) # 1 THEN ErrSingle
  ELSE IF vec_contains(letters, g) THEN ErrGuessed
  ELSE Ok

validate_guess(g, letters) ==
  IF Len(g) # 1 THEN ErrSingle
  ELSE IF ~(\A i \in 1..Len(g) : is_word_char(g[i])) THEN ErrLetter
  ELSE IF vec_contains(letters, g) THEN ErrGuessed
  ELSE Ok

\* validate_new_word without the rule on the characters of the word
validate_new_word_any_char(w, dict) ==
  IF Len(w) < 2 THEN ErrShort
  ELSE IF vec_contains(dict, w) THEN ErrPresent
  ELSE Ok

\* validate_new_word with the first two rules in the other order
validate_new_word_swapped(w, dict) ==
  IF \E i \in 1..Len(w) : ~is_word_char(w[i]) THEN ErrWord
  ELSE IF Len(w) < 2 THEN ErrShort
  ELSE IF vec_contains(dict, w) THEN ErrPresent
  ELSE Ok

validate_new_word(w, dict) ==
  IF Len(w) < 2 THEN ErrShort
  ELSE IF \E i \in 1..Len(w) : ~is_word_char(w[i]) THEN ErrWord
  ELSE IF vec_contains(dict, w) THEN ErrPresent
  ELSE Ok

\* ------------------------------------------------------------ reveal display
\* one slot of display_word: the character or an underscore, then a space
display_slot(c, letters) ==
  IF vec_contains(letters, <<c>>) THEN <<c, SP>> ELSE <<"_", SP>>

RECURSIVE build_display(_, _)
build_display(w, letters) ==
  IF w = <<>> THEN <<>>
  ELSE display_slot(Head(w), letters) \o build_display(Tail(w), letters)

\* a completion test that looks at the first slot only
no_underscore_first(d) == d = <<>> \/ d[1] # "_"

\* display_word.chars().all(|c| c != '_')
no_underscore(d) == \A i \in 1..Len(d) : d[i] # "_"

\* !word.contains(&guess)
wrong_guess(w, g) == ~str_contains(w, g)

\* a miss charged twice
charge_twice(t) == t + 2

\* tries += 1
charge(t) == t + 1

\* the if-chain without its last branch
figure_no_left_arm(t) == IF t \in 1..5 THEN t ELSE 0

\* the if-chain on tries that picks the figure to print (0: nothing printed)
figure(t) == IF t \in 1..6 THEN t ELSE 0

\* the loss test one miss late
lost_late(t) == t = 7

\* no loss test at all
lost_never(t) == FALSE

\* if tries == 6 { "You lost" ; break }
lost(t) == t = 6

\* --------------------------------------------------------------------- state
VARIABLES
  file,             \* content of src/dictionary.txt
  pc,               \* where main is: start, game, ask, addwords, done, exited,
                    \* panicked_load, panicked_append
  dictionary,       \* main's `dictionary`
  word,             \* main's `word`
  guessed,          \* main's `guessed`
  guessed_letters,  \* main's `guessed_letters`
  tries,            \* main's `tries`
  result,           \* what validate_guess returned in the latest turn
  wrong,            \* the latest turn printed "Wrong guess!"
  display_word,     \* the masked word printed last
  drawn,            \* figures printed so far, each with the tries left reported
  outcome,          \* NoGame, InProgress, Won ("You won!") or Lost ("You lost.")
  report,           \* per word of the latest line of new words: verdict and message
  appends,          \* number of write_dictionary calls so far
  closing           \* "Thank you for playing!" has been printed

vars == <<file, pc, dictionary, word, guessed, guessed_letters, tries,
          result, wrong, display_word, drawn, outcome, report, appends, closing>>

gameVars == <<word, guessed, guessed_letters, tries, result, wrong,
              display_word, drawn, outcome>>

\* ------------------------------------------------------------------- inputs
LinePool == {<<>>, <<"a", "b">>, <<"A", "b">>}

RECURSIVE join_lines(_)
join_lines(ls) ==
  IF ls = <<>> THEN <<>> ELSE Head(ls) \o <<NL>> \o join_lines(Tail(ls))

LineLists == UNION {[1..n -> LinePool] : n \in 0..MaxFileLines}

\* files with every line terminated, and files whose last line is not
InitFiles ==
  {join_lines(ls) : ls \in LineLists} \cup
  {SubSeq(join_lines(ls), 1, Len(join_lines(ls)) - 1) :
      ls \in LineLists \ {<<>>}}

GuessInputs ==
  {<<c>> : c \in Chars} \cup
  {<<>>, <<SP, "a">>, <<"b", SP>>, <<"a", "a">>, <<"a", "b">>, <<"A", "1">>}

AskInputs == {<<"y">>, <<"n">>, <<"Y">>, <<SP, "n">>, <<"a">>, <<>>}

WordInputs ==
  {<<"1">>, <<"c", "d">>, <<"A", "b">>,
   <<"c", "d", SP, "c", "d">>, <<"a", "1", SP, "a">>,
   <<"a", "b", SP, SP, "c", "d">>}

\* what the file system does to the first and the second write_dictionary
\* call of one input line
IoPlans ==
  {<<"ok", "ok">>, <<"write_err", "open_err">>, <<"open_err", "ok">>}

\* ---------------------------------------------------------------------- init
Init ==
  /\ file \in InitFiles
  /\ pc = "start"
  /\ dictionary = <<>>
  /\ word = <<>>
  /\ guessed = FALSE
  /\ guessed_letters = <<>>
  /\ tries = 0
  /\ result = Ok
  /\ wrong = FALSE
  /\ display_word = <<>>
  /\ drawn = <<>>
  /\ outcome = "NoGame"
  /\ report = <<>>
  /\ appends = 0
  /\ closing = FALSE

\* ------------------------------------------------------------------- actions
\* read_dictionary panics: the file cannot be created, opened or read
StartPanic ==
  /\ pc = "start"
  /\ pc' = "panicked_load"
  /\ UNCHANGED <<file, dictionary, report, appends, closing>>
  /\ UNCHANGED gameVars

\* main without the test for an empty dictionary: a game starts anyway
StartEmpty_plays ==
  /\ pc = "start"
  /\ read_dictionary(file) = <<>>
  /\ dictionary' = read_dictionary(file)
  /\ outcome' = "InProgress"
  /\ pc' = "game"
  /\ UNCHANGED <<file, word, guessed, guessed_letters, tries, result, wrong,
                 display_word, drawn, report, appends, closing>>

\* main with an empty dictionary: straight to add_new_words_to_dictionary
StartEmpty ==
  /\ pc = "start"
  /\ read_dictionary(file) = <<>>
  /\ dictionary' = read_dictionary(file)
  /\ pc' = "addwords"
  /\ UNCHANGED <<file, report, appends, closing>>
  /\ UNCHANGED gameVars

\* main with words: choose one, print the underscores, initialise the game
StartGame ==
  /\ pc = "start"
  /\ read_dictionary(file) # <<>>
  /\ dictionary' = read_dictionary(file)
  /\ \E i \in 1..Len(read_dictionary(file)) :
        /\ word' = read_dictionary(file)[i]
        /\ display_word' = build_display(read_dictionary(file)[i], <<>>)
  /\ guessed' = FALSE
  /\ guessed_letters' = <<>>
  /\ tries' = 0
  /\ outcome' = "InProgress"
  /\ pc' = "game"
  /\ UNCHANGED <<file, result, wrong, drawn, report, appends, closing>>

\* one iteration of the game loop
Turn(raw) ==
  /\ pc = "game"
  /\ ~guessed
  \* the guess read, the letters with it pushed, the masked word rebuilt
  /\ \E g \in {get_user_input(raw)} :
     \E letters \in {Append(guessed_letters, g)} :
     \E d \in {build_display(word, letters)} :
       LET r == validate_guess(g, guessed_letters)
           gd == IF no_underscore(d) THEN TRUE ELSE guessed
           miss == wrong_guess(word, g)
           t == IF miss THEN charge(tries) ELSE tries
       IN /\ result' = r
          /\ wrong' = (r = Ok /\ miss)
          /\ IF r # Ok
               THEN UNCHANGED <<pc, guessed, guessed_letters, tries,
                                display_word, drawn, outcome>>
               ELSE /\ guessed_letters' = sort(letters)
                    /\ display_word' = d
                    /\ guessed' = gd
                    /\ tries' = t
                    /\ drawn' = IF miss
                                  THEN Append(drawn, [stage |-> figure(t),
                                                      left |-> 6 - t])
                                  ELSE drawn
                    /\ outcome' = IF lost(t) THEN "Lost"
                                  ELSE IF gd THEN "Won" ELSE "InProgress"
                    /\ pc' = IF lost(t) \/ gd THEN "ask" ELSE "game"
  /\ UNCHANGED <<file, dictionary, word, report, appends, closing>>

\* one iteration of the "Would you like to add new words? (y/n)" loop
Ask(raw) ==
  /\ pc = "ask"
  /\ LET input == get_user_input(raw)
     IN pc' = IF input = <<"y">> THEN "addwords"
              ELSE IF input = <<"n">> THEN "exited"
              ELSE "ask"
  /\ UNCHANGED <<file, dictionary, report, appends, closing>>
  /\ UNCHANGED gameVars

\* the for loop over the words of one line; the k-th write_dictionary call of
\* the line meets the file system outcome io[k]
RECURSIVE add_each(_, _, _, _, _)
add_each(words, contents, dict, io, n) ==
  IF words = <<>> THEN [file |-> contents, report |-> <<>>, panic |-> FALSE, n |-> n]
  ELSE LET w == Head(words)
           v == validate_new_word(w, dict)
       IN IF v # Ok
            THEN LET rest == add_each(Tail(words), contents, dict, io, n)
                 IN [rest EXCEPT !.report =
                        <<[word |-> w, verdict |-> v, msg |-> "already"]>> \o @]
          ELSE IF io[n + 1] = "open_err"
            THEN [file |-> contents, report |-> <<>>, panic |-> TRUE, n |-> n + 1]
          ELSE LET rest == add_each(Tail(words),
                                    write_dictionary(contents, w, io[n + 1]),
                                    dict, io, n + 1)
               IN [rest EXCEPT !.report =
                      <<[word |-> w, verdict |-> v, msg |-> "added"]>> \o @]

\* the closing message printed whatever the caller
closing_message_always(dict) == TRUE

\* what main does once add_new_words_to_dictionary has returned: after a game
\* it prints "Thank you for playing!", with an empty dictionary it returns
closing_message(dict) == dict # <<>>

\* one iteration of the loop of add_new_words_to_dictionary; on "1" the
\* function returns and main ends: with the closing message after a game,
\* without it when the dictionary was empty
AddWords(raw, io) ==
  /\ pc = "addwords"
  /\ LET input == get_user_input(raw)
     IN IF trim(input) = <<"1">>
          THEN /\ pc' = "done"
               /\ closing' = closing_message(dictionary)
               /\ UNCHANGED <<file, report, appends>>
          ELSE /\ appends < MaxAppends
               /\ LET res == add_each(split(input), file, dictionary, io, 0)
                  IN /\ file' = res.file
                     /\ report' = res.report
                     /\ appends' = appends + res.n
                     /\ pc' = IF res.panic THEN "panicked_append" ELSE "addwords"
               /\ UNCHANGED closing
  /\ UNCHANGED dictionary
  /\ UNCHANGED gameVars

Next ==
  \/ StartPanic
  \/ StartEmpty
  \/ StartGame
  \/ \E raw \in GuessInputs : Turn(raw)
  \/ \E raw \in AskInputs : Ask(raw)
  \/ \E raw \in WordInputs, io \in IoPlans : AddWords(raw, io)

Spec == Init /\ [][Next]_vars

\* ================================================================ properties
\* the characters of a string, and the characters guessed so far
CharsOf(w) == {w[i] : i \in 1..Len(w)}
GuessedSet == {guessed_letters[i] : i \in 1..Len(guessed_letters)}
WordChars == Lower \cup Upper \cup {"-", "'"}
Distinct(v) == \A i, j \in 1..Len(v) : i # j => v[i] # v[j]

\* the candidate a raw input line hands to the validators
Candidate(raw) == get_user_input(raw)
Accepted(raw) == validate_guess(Candidate(raw), guessed_letters) = Ok
InWord(raw) == \E c \in CharsOf(word) : Candidate(raw) = <<c>>

\* C1: the wrong-guess count stays in 0..6 and never decreases; once it is 6
\* the game is Lost and no further guess is read or processed.
C1_TriesBounded ==
  /\ [](/\ tries \in 0..6
        /\ tries = 6 => outcome = "Lost" /\ pc # "game")
  /\ [][/\ tries' >= tries
        /\ tries = 6 => UNCHANGED gameVars]_vars

C1_Witness == tries = 6 /\ outcome = "Lost" /\ pc = "addwords"

\* C2: a turn changes the count only for an accepted guess that does not occur
\* in the word, and then by exactly one; an accepted guess that occurs in the
\* word leaves the count and the figures drawn unchanged.
C2_ChargeOnlyMisses ==
  [][/\ tries' # tries =>
          /\ tries' = tries + 1
          /\ \E raw \in GuessInputs :
                Turn(raw) /\ Accepted(raw) /\ ~InWord(raw)
     /\ pc = "game" =>
          \A raw \in GuessInputs :
             Accepted(raw) /\ InWord(raw) /\ Turn(raw) =>
                tries' = tries /\ drawn' = drawn]_vars

C2_Witness ==
  /\ pc = "game" /\ tries = 2 /\ result = Ok /\ ~wrong
  /\ GuessedSet \cap {<<c>> : c \in CharsOf(word)} # {}

\* C3: a rejected guess leaves the guessed letters, the count and the outcome
\* unchanged and the player is asked again; an already guessed letter is
\* rejected as such.
C3_RejectionKeepsState ==
  [][pc = "game" => \A raw \in GuessInputs :
        /\ ~Accepted(raw) /\ Turn(raw) =>
              /\ UNCHANGED <<guessed_letters, tries, guessed, outcome, drawn,
                             display_word>>
              /\ pc' = "game"
              /\ result' # Ok
        /\ Candidate(raw) \in GuessedSet /\ Turn(raw) =>
              /\ result' = ErrGuessed
              /\ UNCHANGED <<guessed_letters, tries, guessed, outcome, drawn,
                             display_word, pc>>]_vars

C3_Witness ==
  pc = "game" /\ result = ErrGuessed /\ tries = 1 /\ Len(guessed_letters) = 2

\* C4: the turn that wins the game is a hit: it charges no wrong guess.
C4_WinIsAHit == outcome = "Won" => ~wrong

\* C5: a slot shows the character iff the character, lower-cased, has been
\* guessed, and the word counts as revealed iff every slot is covered so.
C5_CaseInsensitiveReveal ==
  outcome # "NoGame" =>
    /\ Len(display_word) = 2 * Len(word)
    /\ \A i \in 1..Len(word) :
          (display_word[2 * i - 1] = word[i]) <=>
             (<<char_to_lowercase(word[i])>> \in GuessedSet)
    /\ guessed <=>
          (guessed_letters # <<>> /\
           \A i \in 1..Len(word) : <<char_to_lowercase(word[i])>> \in GuessedSet)

\* C6: a word list that starts without duplicates never gets one.
C6_NoDuplicateWords ==
  pc \notin {"start", "panicked_load"} /\ Distinct(dictionary) =>
     Distinct(read_dictionary(file))

\* C7: the guessed letters are pairwise distinct single characters, each a
\* letter, a hyphen or an apostrophe.
C7_GuessedLettersDistinct ==
  /\ Distinct(guessed_letters)
  /\ \A i \in 1..Len(guessed_letters) :
        /\ Len(guessed_letters[i]) = 1
        /\ guessed_letters[i][1] \in WordChars

C7_Witness ==
  /\ Len(guessed_letters) >= 4
  /\ {<<"a">>, <<"-">>, <<"'">>} \subseteq GuessedSet

\* C8: the guess validator answers by the first rule that fails: not a single
\* character, then not a letter, hyphen or apostrophe, then already guessed.
ExpectedGuessVerdict(c) ==
  IF Cardinality(DOMAIN c) # 1 THEN ErrSingle
  ELSE IF c[1] \notin WordChars THEN ErrLetter
  ELSE IF <<char_to_lowercase(c[1])>> \in GuessedSet THEN ErrGuessed
  ELSE Ok

C8_GuessRulesInOrder ==
  pc = "game" =>
    \A raw \in GuessInputs :
       validate_guess(Candidate(raw), guessed_letters)
          = ExpectedGuessVerdict(Candidate(raw))

C8_Witness ==
  /\ pc = "game" /\ result = ErrGuessed
  /\ \E raw \in GuessInputs :
        validate_guess(Candidate(raw), guessed_letters) = ErrSingle
  /\ \E raw \in GuessInputs :
        validate_guess(Candidate(raw), guessed_letters) = ErrLetter

\* C9: the loaded dictionary holds no empty word, so the secret word of a game
\* is never empty.
C9_NoEmptyWord ==
  /\ \A i \in 1..Len(dictionary) : dictionary[i] # <<>>
  /\ outcome # "NoGame" => word # <<>>

\* C10: a candidate equal to a dictionary entry up to letter case is never
\* admitted.
C10_CaseInsensitiveAdmission ==
  \A k \in 1..Len(report) :
     report[k].msg = "added" =>
        ~\E i \in 1..Len(dictionary) :
            to_lowercase(dictionary[i]) = to_lowercase(report[k].word)

\* the words one line of new words hands to the admission validator
Tokens(raw) ==
  LET ws == split(get_user_input(raw)) IN {ws[i] : i \in 1..Len(ws)}
Admissible(x) == validate_new_word(x, dictionary) = Ok

\* C11: a word list that cannot be opened for appending is reported and the
\* process goes on; it never ends there.
C11_AppendFailureSurvived == pc # "panicked_append"

\* C12: appending an admitted word x and loading again gives the dictionary
\* loaded before followed by x as an entry of its own.
C12_AppendLoadRoundTrip ==
  pc = "addwords" =>
    \A raw \in WordInputs : \A x \in Tokens(raw) :
       Admissible(x) =>
          read_dictionary(write_dictionary(file, x, "ok"))
             = read_dictionary(file) \o <<x>>

\* the accepted guesses that do not occur in the word
Lowercase(w) == to_lowercase(w) = w
Misses == {g \in GuessedSet : ~\E c \in CharsOf(word) : g = <<c>>}
Covered == \A c \in CharsOf(word) : <<c>> \in GuessedSet

\* C13: for a lower-case word the game is Won exactly when, after an accepted
\* guess, every character of the word has been guessed with fewer than 6
\* misses, and then the count is the number of accepted guesses not in the word.
C13_WonWhenCovered ==
  outcome # "NoGame" /\ Lowercase(word) =>
    /\ outcome = "Won" <=>
          (guessed_letters # <<>> /\ Covered /\ Cardinality(Misses) < 6)
    /\ outcome = "Won" => tries = Cardinality(Misses)
    /\ outcome = "Won" => pc # "game"

C13_Witness ==
  /\ outcome = "Won" /\ word = <<"a", "b">> /\ tries = 1
  /\ Len(guessed_letters) = 3

\* C14: the k-th miss draws stage k and reports 6 - k tries left; a lost game
\* has drawn the stages 1..6 in order, once each, and is Lost right after
\* stage 6.
C14_StagesInOrder ==
  /\ Len(drawn) = tries
  /\ \A k \in 1..Len(drawn) : drawn[k] = [stage |-> k, left |-> 6 - k]
  /\ outcome = "Lost" <=> Len(drawn) = 6

C14_Witness ==
  outcome = "Lost" /\ Len(drawn) = 6 /\ drawn[6] = [stage |-> 6, left |-> 0]

\* candidate words: those the input lines hand over, and the stored lines
AdmissionCandidates ==
  UNION {Tokens(raw) : raw \in WordInputs} \cup LinePool \cup {<<"-">>}

ExpectedWordVerdict(c) ==
  IF Cardinality(DOMAIN c) < 2 THEN ErrShort
  ELSE IF ~(CharsOf(c) \subseteq WordChars) THEN ErrWord
  ELSE IF c \in {dictionary[i] : i \in 1..Len(dictionary)} THEN ErrPresent
  ELSE Ok

\* C15: the admission validator answers by the first rule that fails: fewer
\* than 2 characters, then a character that is no letter, hyphen or
\* apostrophe, then a word of the dictionary; validating never changes the
\* dictionary.
C15_WordRulesInOrder ==
  /\ [](pc = "addwords" =>
          \A c \in AdmissionCandidates :
             validate_new_word(c, dictionary) = ExpectedWordVerdict(c))
  /\ [][pc = "addwords" => dictionary' = dictionary]_vars

C15_Witness ==
  /\ pc = "addwords"
  /\ \E k \in 1..Len(report) :
        report[k].verdict = ErrShort /\ vec_contains(dictionary, report[k].word)
  /\ \E k \in 1..Len(report) : report[k].verdict = Ok

\* C16 as stated: every run that enters dictionary-management mode ends with
\* the closing message.
C16_AlwaysClosing == pc = "done" => closing

\* C16 as amended: after Won or Lost the player is asked until y or n; n exits
\* with the word list untouched; y leads to dictionary-management mode, and
\* leaving it ends the run with the closing message.  A run that entered
\* dictionary-management mode because the dictionary was empty ends without it.
C16_ClosingAfterGame ==
  /\ [](pc = "ask" => outcome \in {"Won", "Lost"})
  /\ [](pc = "exited" =>
          /\ outcome \in {"Won", "Lost"}
          /\ appends = 0 /\ report = <<>> /\ ~closing
          /\ read_dictionary(file) = dictionary)
  /\ [](pc = "done" => (closing <=> outcome \in {"Won", "Lost"}))
  /\ [](closing => pc = "done")
  /\ [][/\ pc \notin {"done", "exited"}
        /\ pc = "ask" =>
             /\ file' = file
             /\ pc' = "addwords" =>
                  \E raw \in AskInputs : Candidate(raw) = <<"y">> /\ Ask(raw)
             /\ pc' = "exited" =>
                  \E raw \in AskInputs : Candidate(raw) = <<"n">> /\ Ask(raw)
             /\ pc' \in {"ask", "addwords", "exited"}]_vars

C16_Witness == pc = "done" /\ closing /\ outcome = "Lost" /\ appends >= 1

\* C17: a game is played only with a word chosen from a non-empty loaded
\* dictionary; with an empty dictionary the run goes to dictionary-management
\* mode and ends without a game, whatever words were added.
C17_GameNeedsWord ==
  /\ pc \in {"game", "ask", "exited"} \/ outcome # "NoGame" =>
        dictionary # <<>> /\ vec_contains(dictionary, word)
  /\ pc \in {"addwords", "done", "panicked_append"} /\ dictionary = <<>> =>
        /\ outcome = "NoGame"
        /\ guessed_letters = <<>> /\ tries = 0 /\ drawn = <<>>

C17_Witness ==
  /\ pc = "done" /\ dictionary = <<>> /\ outcome = "NoGame"
  /\ appends >= 1 /\ read_dictionary(file) # <<>>

\* C18: a rejected token is not reported as added, and the message printed for
\* it names the rule that rejected it.
C18_MessageNamesRule ==
  \A k \in 1..Len(report) :
     report[k].verdict # Ok =>
        /\ report[k].msg # "added"
        /\ report[k].msg = "already" => report[k].verdict = ErrPresent

\* a turn whose guess the validator accepts
AcceptedTurn == pc = "game" /\ \E raw \in GuessInputs : Accepted(raw) /\ Turn(raw)

\* the program with a player who keeps coming up with an acceptable guess
FairSpec == Init /\ [][Next]_vars /\ WF_vars(AcceptedTurn)

\* the characters a player can get accepted as a guess
Guessable ==
  {c \in Chars : get_user_input(<<c>>) = <<c>> /\ validate_guess(<<c>>, <<>>) = Ok}

RECURSIVE Dedup(_)
Dedup(w) ==
  IF w = <<>> THEN <<>>
  ELSE LET r == Dedup(SubSeq(w, 1, Len(w) - 1))
       IN IF w[Len(w)] \in CharsOf(r) THEN r ELSE Append(r, w[Len(w)])

\* the game loop over the word w, fed the characters of todo one per line
RECURSIVE play(_, _, _, _)
play(w, todo, letters, t) ==
  IF todo = <<>> THEN [outcome |-> "InProgress", tries |-> t]
  ELSE LET g == get_user_input(<<Head(todo)>>)
           pushed == Append(letters, g)
           d == build_display(w, pushed)
           t2 == IF wrong_guess(w, g) THEN charge(t) ELSE t
       IN IF validate_guess(g, letters) # Ok
            THEN [outcome |-> "Rejected", tries |-> t]
          ELSE IF lost(t2) THEN [outcome |-> "Lost", tries |-> t2]
          ELSE IF no_underscore(d) THEN [outcome |-> "Won", tries |-> t2]
          ELSE play(w, Tail(todo), sort(pushed), t2)

Winnable(x) ==
  /\ CharsOf(x) \subseteq Guessable
  /\ play(x, Dedup(x), <<>>, 0) = [outcome |-> "Won", tries |-> 0]

\* lines of new words, with hyphens, apostrophes, capitals and digits
AdmissionLines ==
  WordInputs \cup
  {<<"c", "-", "d">>, <<"A", "'", "A">>, <<"-", "-", SP, "f", "1">>,
   <<"e", "f", "e", SP, "A", "A">>}

\* C20: every word the admission flow accepts (the line trimmed and
\* lower-cased, split, each word validated) is made of characters that are
\* accepted as a guess, and guessing its distinct characters one by one wins
\* the game over it with no wrong guess.
C20_AdmittedWinnable ==
  pc = "addwords" =>
    /\ \A k \in 1..Len(report) :
          report[k].verdict = Ok => Winnable(report[k].word)
    /\ \A raw \in AdmissionLines : \A x \in Tokens(raw) :
          Admissible(x) => Winnable(x)

C20_Witness ==
  /\ pc = "addwords" /\ dictionary = <<<<"A", "b">>>>
  /\ \E k \in 1..Len(report) :
        report[k].verdict = Ok /\ report[k].word = <<"a", "b">>
  /\ Admissible(<<"c", "-", "d">>) /\ Admissible(<<"a", "'", "a">>)

====
